---------------------------- MODULE Spec2Model ----------------------------
(***************************************************************************)
(* BaristaPro: the shot timer (ShotTimer), the two AI service calls        *)
(* (searchCoffeeParameters, getBaristaAdvice) and the journal part of the  *)
(* App component, modelled from the single-file build of the application   *)
(* (the file that calls ReactDOM.createRoot) and the ShotTimer component.  *)
(*                                                                         *)
(* The specifications of the module:                                       *)
(*   TimerSpec    the ShotTimer component under a wall clock               *)
(*   ServiceSpec  the two service functions applied to bounded inputs      *)
(*   AppSpec      key, search, submit, persist, advice, delete of App      *)
(*   AppLiveSpec  AppSpec with service calls that settle                   *)
(*   JournalSpec  the journal list under the inputs of the draft form      *)
(*   StartupSpec  first render, mount effects, reload                      *)
(***************************************************************************)
EXTENDS Integers, Sequences, FiniteSets, TLC

(***************************************************************************)
(* Bounds of the model.                                                    *)
(***************************************************************************)
\* the wall clock stops advancing at MaxNow milliseconds
MaxNow == 2400
\* the wall clock advances in steps of ClockStep milliseconds
ClockStep == 50
\* number of stops after which the Stop button is no longer pressed
MaxStops == 2

(***************************************************************************)
(* Program constants.                                                      *)
(***************************************************************************)
\* window.setInterval(..., 100)
TickInterval == 100
\* Math.floor((Date.now() - startTime) / 1000)
MsPerSecond == 1000

VARIABLES
  now,            \* Date.now(), milliseconds
  \* ---- ShotTimer ----
  state,          \* useState<TimerState>('IDLE')
  time,           \* useState(0): extraction counter, seconds
  pumpTime,       \* useState(0): pump counter, seconds
  timerRef,       \* the extraction interval: [active, startTime, lastFire]
  pumpTimerRef,   \* the pump interval: [active, startTime, lastFire]
  onStopCount,    \* number of calls of the onStop prop so far
  lastEmit,       \* the latest onStop call: its argument, the whole seconds from
                  \* firstDrop to the call, and those from firstDrop to the latest tick
  lastEvent,      \* the latest timer event
  firstDropAt,    \* while EXTRACTING: instant of the firstDrop (-1 otherwise)
  lastTickAt,     \* while EXTRACTING: instant of the latest tick since firstDrop (-1: none)
  \* ---- service functions ----
  svcCall,        \* the call under consideration: function, credential, argument,
                  \* and what the AI service does when it is reached
  svcResult,      \* how the returned promise settled
  svcRequest,     \* the contents handed to generateContent (<<>>: no request)
  \* ---- App ----
  aistudio,       \* window.aistudio is present
  apiKey,         \* useState(localStorage.getItem('GEMINI_API_KEY') || ''), which
                  \* an effect copies to window.process.env.API_KEY
  showKeyInput,   \* useState(false)
  shots,          \* useState<EspressoShot[]>([])
  storage,        \* localStorage item 'barista_shots_v3'
  loadingAdvice,  \* useState(false)
  advice,         \* useState<DialInAdvice | null>(null)
  error,          \* useState<string | null>(null), "" for null
  isAdding,       \* useState(false)
  searchStep,     \* useState(true)
  searchQuery,    \* useState('')
  isSearching,    \* useState(false)
  searchRecommendation,  \* useState<CoffeeSearchRecommendation | null>(null)
  form,           \* useState<Partial<EspressoShot>>({...})
  searchReqs,     \* calls of handleStartSearch suspended at an await
  adviceReqs,     \* calls of handleSubmit suspended at the await
  recQuery,       \* the query searchRecommendation was requested with ("" for none)
  edits,          \* number of changes made to the fields of the draft form
  \* ---- startup of the App ----
  strictMode,     \* the build runs the effects of <React.StrictMode> twice at mount
  phase,          \* "constructed": first render done, effects not yet run;
                  \* "effects": mount effects run, their state updates queued;
                  \* "running": the queued updates are rendered
  queuedShots,    \* the setShots calls of the mount effects, in order
  persisted       \* the stored item the App was started with

timerVars == <<state, time, pumpTime, timerRef, pumpTimerRef, onStopCount,
               lastEmit, lastEvent, firstDropAt, lastTickAt>>

svcVars == <<svcCall, svcResult, svcRequest>>

appVars == <<aistudio, apiKey, showKeyInput, shots, storage, loadingAdvice,
             advice, error, isAdding, searchStep, searchQuery, isSearching,
             searchRecommendation, form, searchReqs, adviceReqs, recQuery, edits>>

startVars == <<strictMode, phase, queuedShots, persisted>>

vars == <<now, timerVars, svcVars, appVars, startVars>>

NoInterval == [active |-> FALSE, startTime |-> 0, lastFire |-> 0]

(***************************************************************************)
(* Texts and JSON.  A text is a sequence of tokens; a token is whitespace, *)
(* a word of prose, a markdown code fence, a brace, a comma, the literal   *)
(* null, or a member  "k": v  of a JSON object.                            *)
(***************************************************************************)
Tok(t, k, v) == [t |-> t, k |-> k, v |-> v]
LB == Tok("{", "", "")
RB == Tok("}", "", "")
Comma == Tok(",", "", "")
Sp == Tok("sp", "", "")
Txt == Tok("txt", "", "")
Fence == Tok("fence", "", "")
Null == Tok("null", "", "")
Pair(k, v) == Tok("pair", k, v)

NoFields == [k \in {} |-> ""]

\* what JSON.parse or a service function evaluates to: an object with its
\* members, or null; a search result carries its sources beside the members
ObjectValue(fields, sources) == [type |-> "object", fields |-> fields, sources |-> sources]
NullValue == [type |-> "null", fields |-> NoFields, sources |-> <<>>]

\* the members of a JSON object text; of two members with one key the later wins
Members(toks) ==
  LET keys == {toks[i].k : i \in {j \in DOMAIN toks : toks[j].t = "pair"}}
      last(k) == CHOOSE i \in DOMAIN toks :
                   /\ toks[i].t = "pair" /\ toks[i].k = k
                   /\ \A j \in DOMAIN toks : (toks[j].t = "pair" /\ toks[j].k = k) => j <= i
  IN  [k \in keys |-> toks[last(k)].v]

\* JSON.parse: whitespace between tokens is skipped; the text must be null or
\* an object  { member , member ... }  without a trailing comma; anything
\* else is a SyntaxError (ok = FALSE)
JSONParse(text) ==
  LET body == SelectSeq(text, LAMBDA x : x.t # "sp")
      n == Len(body)
      inner == SubSeq(body, 2, n - 1)
      wellFormed ==
        /\ n >= 2 /\ body[1] = LB /\ body[n] = RB
        /\ \/ Len(inner) = 0
           \/ /\ Len(inner) % 2 = 1
              /\ \A i \in DOMAIN inner :
                   IF i % 2 = 1 THEN inner[i].t = "pair" ELSE inner[i] = Comma
  IN  IF body = <<Null>> THEN [ok |-> TRUE, value |-> NullValue]
      ELSE IF wellFormed THEN [ok |-> TRUE, value |-> ObjectValue(Members(inner), <<>>)]
      ELSE [ok |-> FALSE, value |-> NullValue]

\* String.prototype.trim: leading and trailing whitespace removed
RECURSIVE TrimStart(_)
TrimStart(text) ==
  IF text # <<>> /\ Head(text) = Sp THEN TrimStart(Tail(text)) ELSE text

RECURSIVE TrimEnd(_)
TrimEnd(text) ==
  IF text # <<>> /\ text[Len(text)] = Sp THEN TrimEnd(SubSeq(text, 1, Len(text) - 1)) ELSE text

Trim(text) == TrimEnd(TrimStart(text))

(***************************************************************************)
(* The service functions getBaristaAdvice and searchCoffeeParameters.      *)
(***************************************************************************)
MissingKeyError == "Kein API Key vorhanden"

Resolved(value, calls) ==
  [kind |-> "resolved", value |-> value, error |-> "", networkCalls |-> calls]
Rejected(err, calls) ==
  [kind |-> "rejected", value |-> NullValue, error |-> err, networkCalls |-> calls]

\* getApiKey() and  if (!apiKey) throw new Error("Kein API Key vorhanden")
KeyMissingNeverChecked(key) == FALSE

KeyMissing(key) == key = ""

AdviceKeys == {"diagnosis", "recommendation", "adjustment", "explanation"}

\* the object literal returned by the catch block of getBaristaAdvice
FallbackAdvice ==
  [k \in AdviceKeys |->
     CASE k = "diagnosis" -> "Analyse momentan nicht möglich."
       [] k = "recommendation" -> "Mahlgrad nach Gefühl anpassen."
       [] k = "adjustment" -> "Leicht feiner/gröber probieren."
       [] k = "explanation" -> "Keine Verbindung zum Barista-Server."]

\* the catch block of getBaristaAdvice, entered with the error message
AdviceCatchRethrow(message) == Rejected(message, 1)

AdviceCatchWithMessage(message) ==
  Resolved(ObjectValue([FallbackAdvice EXCEPT !["explanation"] = message], <<>>), 1)

AdviceCatch(message) == Resolved(ObjectValue(FallbackAdvice, <<>>), 1)

\* return JSON.parse(response.text.trim()) as DialInAdvice, for a parsed value
AdviceReturn(value) == Resolved(value, 1)

\* the prompt of getBaristaAdvice: the template with its interpolations, in
\* the order of the text: PID-Stufe, Bohne, Dosis, Ertrag, Zeit, Mahlgrad,
\* Säure, Bitterkeit, Körper, Süße
AdvicePrompt(shot) ==
  <<"PID-Stufe: ", shot.maraXTempSetting,
    "Bohne: ", shot.beanName,
    "Dosis (In): ", ToString(shot.dose), "g",
    "Ertrag (Out): ", ToString(shot.yield), "g",
    "Zeit: ", ToString(shot.time), "s",
    "Eingestellter Mahlgrad: ", shot.grindSetting,
    "Säure: ", ToString(shot.flavorProfile["sourness"]),
    "Bitterkeit: ", ToString(shot.flavorProfile["bitterness"]),
    "Körper: ", ToString(shot.flavorProfile["body"]),
    "Süße: ", ToString(shot.flavorProfile["sweetness"])>>

\* the prompt of searchCoffeeParameters: the template with the query
SearchPrompt(query) == <<"Suche nach Brühparametern (Brew Guide) für diesen Kaffee: ", query>>

\* getBaristaAdvice(shot) with the credential key, when the service
\* behaves as env says: generateContent throws env.message, or returns a
\* response whose text is env.text (undefined when env.hasText is FALSE)
getBaristaAdvice(key, shot, env) ==
  IF KeyMissing(key) THEN Rejected(MissingKeyError, 0)
  ELSE IF env.threw THEN AdviceCatch(env.message)
  ELSE IF ~env.hasText THEN AdviceCatch("TypeError")
  ELSE LET parsed == JSONParse(Trim(env.text))
       IN  IF parsed.ok THEN AdviceReturn(parsed.value) ELSE AdviceCatch("SyntaxError")

\* title: chunk.web?.title || "Quelle", uri: chunk.web?.uri || ""
\* (a chunk whose title is absent has hasTitle = FALSE; an absent uri is the
\* empty string the code makes of it)
SourceOf(chunk) ==
  [title |-> IF chunk.hasTitle /\ chunk.title # "" THEN chunk.title ELSE "Quelle",
   uri |-> chunk.uri]

\* groundingChunks?.map(...).filter(s => s.uri) || []
CollectSourcesUnfiltered(hasChunks, chunks) ==
  IF ~hasChunks THEN <<>> ELSE [i \in DOMAIN chunks |-> SourceOf(chunks[i])]

CollectSources(hasChunks, chunks) ==
  IF ~hasChunks THEN <<>>
  ELSE SelectSeq([i \in DOMAIN chunks |-> SourceOf(chunks[i])], LAMBDA x : x.uri # "")

\* text.match(/\{[\s\S]*\}/): the span from the first { to the last },
\* when the last } comes after the first {
JsonMatch(text) ==
  LET lbs == {i \in DOMAIN text : text[i] = LB}
      rbs == {i \in DOMAIN text : text[i] = RB}
      first == CHOOSE i \in lbs : \A j \in lbs : i <= j
      last == CHOOSE i \in rbs : \A j \in rbs : i >= j
  IN  IF lbs # {} /\ rbs # {} /\ first < last
        THEN [found |-> TRUE, span |-> SubSeq(text, first, last)]
        ELSE [found |-> FALSE, span |-> <<>>]

\* the messages an exception of the network call may carry
ErrorMessages == {"Failed to fetch", "503 Service Unavailable"}

\* "API Fehler: " + (e as Error).message
ApiErrorDescriptionUnreadable(message) == "Konnte Antwort nicht lesen."

ApiErrorDescription(message) == "API Fehler: " \o message

\* { found: false, sources, description }
NotFoundWithoutSources(sources, description) ==
  ObjectValue([k \in {"found", "description"} |->
                 IF k = "found" THEN "false" ELSE description], <<>>)

NotFound(sources, description) ==
  ObjectValue([k \in {"found", "description"} |->
                 IF k = "found" THEN "false" ELSE description], sources)

\* { ...jsonData, sources }
SpreadKeepsParsedSources(value, sources) == ObjectValue(value.fields, sources)

Spread(value, sources) ==
  ObjectValue([k \in (DOMAIN value.fields) \ {"sources"} |-> value.fields[k]], sources)

\* searchCoffeeParameters(query) with the credential key, when the service
\* behaves as env says
searchCoffeeParameters(key, query, env) ==
  IF KeyMissing(key) THEN Rejected(MissingKeyError, 0)
  ELSE IF env.threw
    THEN Resolved(NotFound(<<>>, ApiErrorDescription(env.message)), 1)
  ELSE LET text == IF env.hasText THEN env.text ELSE <<>>
           sources == CollectSources(env.hasChunks, env.chunks)
           jsonMatch == JsonMatch(text)
           jsonData == JSONParse(jsonMatch.span)
       IN  IF ~jsonMatch.found
             THEN Resolved(NotFound(sources, "Konnte Antwort nicht lesen."), 1)
           ELSE IF jsonData.ok
             THEN Resolved(Spread(jsonData.value, sources), 1)
           ELSE Resolved(NotFound(sources, "Fehler beim Verarbeiten der Daten."), 1)

(***************************************************************************)
(* The inputs the service functions are applied to.                        *)
(***************************************************************************)
\* at most MaxChunks grounding chunks in a response
MaxChunks == 2

ApiKeys == {"", "AIza-key"}

Queries == {"Ethiopia Guji", "House Blend"}

\* the shots handed to getBaristaAdvice: one shot and the shots that differ
\* from it in one field
BaseShot ==
  [beanName |-> "Ethiopia Guji", dose |-> 18, yield |-> 36, time |-> 25,
   maraXTempSetting |-> "0", grindSetting |-> "2.5", notes |-> "",
   flavorProfile |-> [k \in {"sourness", "bitterness", "body", "sweetness", "overall"} |-> 3],
   id |-> "0", timestamp |-> 0]

ServiceShots ==
  { BaseShot,
    [BaseShot EXCEPT !.beanName = "House Blend"],
    [BaseShot EXCEPT !.dose = 17],
    [BaseShot EXCEPT !.yield = 34],
    [BaseShot EXCEPT !.time = 26],
    [BaseShot EXCEPT !.maraXTempSetting = "II"],
    [BaseShot EXCEPT !.grindSetting = "3.0"],
    [BaseShot EXCEPT !.notes = "dünn"] }
  \cup { [BaseShot EXCEPT !.flavorProfile[k] = 4] :
           k \in {"sourness", "bitterness", "body", "sweetness", "overall"} }

\* object texts: members in the order given, optionally a trailing comma,
\* between a prefix and a suffix
Render(pre, members, trailingComma, post) ==
  LET n == Len(members)
      body == [i \in 1..(IF n = 0 THEN 0 ELSE 2 * n - 1) |->
                 IF i % 2 = 1 THEN members[(i + 1) \div 2] ELSE Comma]
  IN  pre \o <<LB>> \o body \o (IF trailingComma THEN <<Comma>> ELSE <<>>) \o <<RB>> \o post

\* the members of an advice payload: the fields of the set ks, each with value v
AdviceMembers(ks, v) ==
  LET order == <<"diagnosis", "recommendation", "adjustment", "explanation">>
  IN  [i \in 1..Cardinality(ks) |->
         Pair(order[CHOOSE j \in 1..4 :
                      /\ order[j] \in ks
                      /\ Cardinality({m \in 1..j : order[m] \in ks}) = i], v)]

AdviceTexts ==
  { Render(pre, AdviceMembers(ks, v), tc, post) :
      pre \in {<<>>, <<Sp>>, <<Txt>>}, ks \in SUBSET AdviceKeys,
      v \in {"sauer", "bitter"}, tc \in BOOLEAN, post \in {<<>>, <<Sp>>} }
  \cup {<<>>, <<Null>>, <<Sp, Null, Sp>>, <<Txt>>, <<LB>>}

SearchObjects ==
  { <<>>,
    <<Pair("found", "true"), Pair("dose", "17"), Pair("yield", "34"), Pair("time", "26")>>,
    <<Pair("found", "true"), Pair("dose", "0"), Pair("maraXSetting", "II")>>,
    <<Pair("found", "false"), Pair("description", "nichts gefunden")>>,
    <<Pair("found", "true"), Pair("sources", "x"), Pair("found", "false")>> }

SearchTexts ==
  { Render(pre, ms, tc, post) :
      pre \in {<<>>, <<Txt, Fence>>, <<LB>>}, ms \in SearchObjects,
      tc \in BOOLEAN, post \in {<<>>, <<Fence, Txt>>, <<RB>>} }
  \cup {<<>>, <<Txt>>, <<RB, LB>>, <<LB, Txt>>, <<Fence, Txt, RB>>}

Chunks ==
  { c \in [hasTitle : BOOLEAN, title : {"", "Roaster"},
           uri : {"", "https://a.example", "https://b.example"}] :
      ~c.hasTitle => c.title = "" }

ChunkLists == UNION { [1..n -> Chunks] : n \in 0..MaxChunks }

\* what the AI service does when it is reached
AdviceEnvs ==
  [threw : {TRUE}, message : ErrorMessages, hasText : {FALSE}, text : {<<>>},
   hasChunks : {FALSE}, chunks : {<<>>}]
  \cup [threw : {FALSE}, message : {""}, hasText : {FALSE}, text : {<<>>},
        hasChunks : {FALSE}, chunks : {<<>>}]
  \cup [threw : {FALSE}, message : {""}, hasText : {TRUE}, text : AdviceTexts,
        hasChunks : {FALSE}, chunks : {<<>>}]

SearchEnvs ==
  [threw : {TRUE}, message : ErrorMessages, hasText : {FALSE}, text : {<<>>},
   hasChunks : {FALSE}, chunks : {<<>>}]
  \cup [threw : {FALSE}, message : {""}, hasText : {FALSE}, text : {<<>>},
        hasChunks : BOOLEAN, chunks : {<<>>}]
  \cup [threw : {FALSE}, message : {""}, hasText : {TRUE}, text : SearchTexts,
        hasChunks : {TRUE}, chunks : ChunkLists]

NoEnv ==
  [threw |-> FALSE, message |-> "", hasText |-> FALSE, text |-> <<>>,
   hasChunks |-> FALSE, chunks |-> <<>>]

NoCall == [op |-> "none", apiKey |-> "", arg |-> "", env |-> NoEnv]
NoResult == [kind |-> "none", value |-> NullValue, error |-> "", networkCalls |-> 0]

\* a call of getBaristaAdvice settles
CallGetBaristaAdvice ==
  /\ svcCall.op = "none"
  /\ \E key \in ApiKeys, shot \in ServiceShots, env \in AdviceEnvs :
       /\ svcCall' = [op |-> "advice", apiKey |-> key, arg |-> shot, env |-> env]
       /\ svcResult' = getBaristaAdvice(key, shot, env)
       /\ svcRequest' = IF KeyMissing(key) THEN <<>> ELSE AdvicePrompt(shot)

\* a call of searchCoffeeParameters settles
CallSearchCoffeeParameters ==
  /\ svcCall.op = "none"
  /\ \E key \in ApiKeys, query \in Queries, env \in SearchEnvs :
       /\ svcCall' = [op |-> "search", apiKey |-> key, arg |-> query, env |-> env]
       /\ svcResult' = searchCoffeeParameters(key, query, env)
       /\ svcRequest' = IF KeyMissing(key) THEN <<>> ELSE SearchPrompt(query)

\* the caller has taken the result; the next call can be made
ServiceIdle ==
  /\ svcCall.op # "none"
  /\ svcCall' = NoCall
  /\ svcResult' = NoResult
  /\ svcRequest' = <<>>

(***************************************************************************)
(* ShotTimer                                                               *)
(***************************************************************************)

\* Math.floor((Date.now() - start) / 1000)
ElapsedSecondsNaive(start, t, prev) == prev + 1

ElapsedSecondsCeiling(start, t, prev) == (t - start + MsPerSecond - 1) \div MsPerSecond

ElapsedSeconds(start, t, prev) == (t - start) \div MsPerSecond

\* The body of useEffect(..., [state]) for the state newState rendered with
\* the counters newTime and newPumpTime: the cleanup of the previous run
\* clears both intervals, then the interval of the new state is created with
\* its start instant captured in the closure.
EffectTimerRef(newState, newTime) ==
  IF newState = "EXTRACTING"
    THEN [active |-> TRUE, startTime |-> now - newTime * MsPerSecond, lastFire |-> now]
    ELSE NoInterval

EffectPumpTimerRef(newState, newPumpTime) ==
  IF newState = "PUMPING"
    THEN [active |-> TRUE, startTime |-> now - newPumpTime * MsPerSecond, lastFire |-> now]
    ELSE NoInterval

\* the wall clock moves on
AdvanceClock ==
  /\ now < MaxNow
  /\ now' = now + ClockStep
  /\ lastEvent' = "clock"
  /\ UNCHANGED <<state, time, pumpTime, timerRef, pumpTimerRef, onStopCount,
                 lastEmit, firstDropAt, lastTickAt>>

\* the counters handleStartPump sets: setTime(0); setPumpTime(0)
StartCountersKept == <<time, pumpTime>>

StartCounters == <<0, 0>>

\* "Pumpe Start", rendered only while state === 'IDLE'
handleStartPump ==
  /\ state = "IDLE"
  /\ state' = "PUMPING"
  /\ time' = StartCounters[1]
  /\ pumpTime' = StartCounters[2]
  /\ timerRef' = EffectTimerRef("PUMPING", time')
  /\ pumpTimerRef' = EffectPumpTimerRef("PUMPING", pumpTime')
  /\ lastEvent' = "start"
  /\ UNCHANGED <<now, onStopCount, lastEmit, firstDropAt, lastTickAt>>

\* "Erster Tropfen!", rendered only while state === 'PUMPING'
handleFirstDrop ==
  /\ state = "PUMPING"
  /\ state' = "EXTRACTING"
  /\ timerRef' = EffectTimerRef("EXTRACTING", time)
  /\ pumpTimerRef' = EffectPumpTimerRef("EXTRACTING", pumpTime)
  /\ lastEvent' = "firstDrop"
  /\ firstDropAt' = now
  /\ lastTickAt' = -1
  /\ UNCHANGED <<now, time, pumpTime, onStopCount, lastEmit>>

\* the value handleStop hands to onStop
StopValue == time

\* the counters handleStop leaves behind
StopCountersCleared == <<0, 0>>

StopCounters == <<time, pumpTime>>

\* the Stop button is rendered only while state === 'EXTRACTING'
StopRenderedLikeReset == state # "IDLE"

StopRendered == state = "EXTRACTING"

\* "Stop"
handleStop ==
  /\ StopRendered
  /\ onStopCount < MaxStops
  /\ onStopCount' = onStopCount + 1
  /\ lastEmit' = [value |-> StopValue,
                  wallSeconds |-> (now - firstDropAt) \div MsPerSecond,
                  tickSeconds |-> IF lastTickAt = -1 THEN 0
                                  ELSE (lastTickAt - firstDropAt) \div MsPerSecond]
  /\ state' = "IDLE"
  /\ time' = StopCounters[1]
  /\ pumpTime' = StopCounters[2]
  /\ timerRef' = EffectTimerRef("IDLE", time')
  /\ pumpTimerRef' = EffectPumpTimerRef("IDLE", pumpTime')
  /\ lastEvent' = "stop"
  /\ firstDropAt' = -1
  /\ lastTickAt' = -1
  /\ UNCHANGED now

\* the counters handleReset leaves behind
ResetCountersKept == <<time, pumpTime>>

ResetCounters == <<0, 0>>

\* "Reset", rendered only while state !== 'IDLE'
handleReset ==
  /\ state # "IDLE"
  /\ state' = "IDLE"
  /\ time' = ResetCounters[1]
  /\ pumpTime' = ResetCounters[2]
  /\ timerRef' = EffectTimerRef("IDLE", time')
  /\ pumpTimerRef' = EffectPumpTimerRef("IDLE", pumpTime')
  /\ lastEvent' = "reset"
  /\ firstDropAt' = -1
  /\ lastTickAt' = -1
  /\ UNCHANGED <<now, onStopCount, lastEmit>>

\* the callback of the extraction interval; it runs no sooner than 100 ms
\* after the previous run (or after the interval was created), possibly later
TickExtraction ==
  /\ timerRef.active
  /\ now - timerRef.lastFire >= TickInterval
  /\ time' = ElapsedSeconds(timerRef.startTime, now, time)
  /\ timerRef' = [timerRef EXCEPT !.lastFire = now]
  /\ lastEvent' = "tick"
  /\ lastTickAt' = now
  /\ UNCHANGED <<now, state, pumpTime, pumpTimerRef, onStopCount, lastEmit, firstDropAt>>

\* the callback of the pump interval
TickPump ==
  /\ pumpTimerRef.active
  /\ now - pumpTimerRef.lastFire >= TickInterval
  /\ pumpTime' = ElapsedSeconds(pumpTimerRef.startTime, now, pumpTime)
  /\ pumpTimerRef' = [pumpTimerRef EXCEPT !.lastFire = now]
  /\ lastEvent' = "tick"
  /\ UNCHANGED <<now, state, time, timerRef, onStopCount, lastEmit, firstDropAt, lastTickAt>>

(***************************************************************************)
(* App: the journal, the draft form, the search step and the two requests. *)
(***************************************************************************)
\* bounds of the App model
\* the journal is not grown beyond MaxShots shots
MaxShots == 1
\* the clock of the App model stops at MaxAppNow
MaxAppNow == 1
\* at most MaxPending calls of handleSubmit are suspended at its await
MaxPending == 2
\* bounds of the journal model: the length of the journal, the suspended
\* calls of handleSubmit, the changes made to the fields of the draft form
MaxJournalShots == 2
MaxJournalPending == 1
MaxEdits == 1
\* the journal found in localStorage at startup has at most MaxStored shots
MaxStored == 3

NoValue == [present |-> FALSE, value |-> NullValue]
Some(v) == [present |-> TRUE, value |-> v]

FlavorKeys == {"sourness", "bitterness", "body", "sweetness", "overall"}

\* the initial value of the form state
InitialForm ==
  [beanName |-> "", dose |-> 18, yield |-> 36, time |-> 25, maraXTempSetting |-> "0",
   grindSetting |-> "", notes |-> "", flavorProfile |-> [k \in FlavorKeys |-> 3]]

\* the fields of an EspressoShot in the order handleSubmit builds them:
\* ...form, id, timestamp, flavorProfile
ShotKeys == <<"beanName", "dose", "yield", "time", "maraXTempSetting", "grindSetting",
              "notes", "flavorProfile", "id", "timestamp">>

\* JSON.stringify of one shot: its members in order
StringifyShot(shot) == [i \in DOMAIN ShotKeys |-> [k |-> ShotKeys[i], v |-> shot[ShotKeys[i]]]]

\* JSON.parse of one serialized shot
ParseShot(text) ==
  [key \in {text[i].k : i \in DOMAIN text} |->
     text[CHOOSE i \in DOMAIN text :
            text[i].k = key /\ \A j \in DOMAIN text : text[j].k = key => j <= i].v]

\* JSON.stringify(shots) and JSON.parse(saved)
JSONStringifyShots(list) == [i \in DOMAIN list |-> StringifyShot(list[i])]
JSONParseShots(text) == [i \in DOMAIN text |-> ParseShot(text[i])]

\* useEffect(() => localStorage.setItem('barista_shots_v3', JSON.stringify(shots)), [shots])
\* run for the list that was rendered
PersistShotsSkipped(list) == [present |-> TRUE, text |-> JSONStringifyShots(<<>>)]

PersistShots(list) == [present |-> TRUE, text |-> JSONStringifyShots(list)]

\* the stored list holds the shot
Stored(shot) ==
  storage.present /\ \E i \in DOMAIN storage.text : ParseShot(storage.text[i]) = shot

\* getApiKey(): window.process?.env?.API_KEY || localStorage.getItem('GEMINI_API_KEY') || ''
getApiKey == apiKey

\* JavaScript truthiness of a member of a parsed object
Truthy(fields, k) == k \in DOMAIN fields /\ fields[k] \notin {"", "0", "false", "null"}

\* the number a JSON number literal stands for
NumberOf(v) ==
  CASE v = "17" -> 17 [] v = "34" -> 34 [] v = "26" -> 26 [] OTHER -> 0

\* what the AI service may do to a request of the App
\* the texts typed into the search input
AppQueries == {"Ethiopia Guji"}

ResponseEnv(text, chunks) ==
  [threw |-> FALSE, message |-> "", hasText |-> TRUE, text |-> text,
   hasChunks |-> TRUE, chunks |-> chunks]

ThrowEnv(message) ==
  [threw |-> TRUE, message |-> message, hasText |-> FALSE, text |-> <<>>,
   hasChunks |-> FALSE, chunks |-> <<>>]

AppSearchEnvs ==
  { ThrowEnv("Failed to fetch") }
  \cup { ResponseEnv(Render(<<Txt, Fence>>, ms, FALSE, <<Fence, Txt>>),
                       IF ms = <<>> THEN <<>> ELSE <<[hasTitle |-> FALSE, title |-> "", uri |-> "https://a.example"]>>) :
           ms \in { <<Pair("found", "true"), Pair("dose", "0"), Pair("yield", "34"),
                      Pair("maraXSetting", "II")>> } }

AppAdviceEnvs ==
  { ThrowEnv("Failed to fetch") }
  \cup { [ResponseEnv(Render(<<>>, AdviceMembers(ks, "sauer"), FALSE, <<>>), <<>>)
            EXCEPT !.hasChunks = FALSE] : ks \in {AdviceKeys} }

\* the suspended calls, once the screen session that made them is over
Abandon(reqs) == [i \in DOMAIN reqs |-> [reqs[i] EXCEPT !.abandoned = TRUE]]

\* the clock of the App moves on
AppClock ==
  /\ now < MaxAppNow
  /\ now' = now + 1
  /\ UNCHANGED appVars

\* the form of the key screen: saveApiKey(val) for a non-empty val
saveApiKey ==
  /\ showKeyInput
  /\ \E key \in ApiKeys \ {""} :
       /\ apiKey' = key
       /\ showKeyInput' = FALSE
  /\ UNCHANGED <<now, recQuery, edits, aistudio, shots, storage, loadingAdvice, advice, error,
                 isAdding, searchStep, searchQuery, isSearching, searchRecommendation,
                 form, searchReqs, adviceReqs>>

\* "Neuer Shot", "Suchen & Starten", "Andere Sorte"
startNewCoffee ==
  /\ ~showKeyInput /\ ~isAdding
  /\ searchQuery' = ""
  /\ searchRecommendation' = NoValue
  /\ searchStep' = TRUE
  /\ isAdding' = TRUE
  /\ advice' = NoValue
  /\ error' = ""
  /\ searchReqs' = Abandon(searchReqs)
  /\ adviceReqs' = Abandon(adviceReqs)
  /\ recQuery' = ""
  /\ UNCHANGED <<now, edits, aistudio, apiKey, showKeyInput, shots, storage,
                 loadingAdvice, isSearching, form>>

\* "Wiederholen", rendered with the advice
repeatShot ==
  /\ ~showKeyInput /\ ~isAdding /\ advice.present /\ advice.value.type = "object"
  /\ searchStep' = FALSE
  /\ isAdding' = TRUE
  /\ advice' = NoValue
  /\ error' = ""
  /\ searchReqs' = Abandon(searchReqs)
  /\ adviceReqs' = Abandon(adviceReqs)
  /\ UNCHANGED <<now, recQuery, edits, aistudio, apiKey, showKeyInput, shots, storage,
                 loadingAdvice, searchQuery, isSearching, searchRecommendation, form>>

\* "Abbrechen" on the search step: setIsAdding(false)
cancelAdding ==
  /\ ~showKeyInput /\ isAdding /\ searchStep
  /\ isAdding' = FALSE
  /\ UNCHANGED <<now, recQuery, edits, aistudio, apiKey, showKeyInput, shots, storage,
                 loadingAdvice, advice, error, searchStep, searchQuery, isSearching,
                 searchRecommendation, form, searchReqs, adviceReqs>>

\* "Bohne ändern" on the form: setSearchStep(true)
changeBean ==
  /\ ~showKeyInput /\ isAdding /\ ~searchStep
  /\ searchStep' = TRUE
  /\ UNCHANGED <<now, recQuery, edits, aistudio, apiKey, showKeyInput, shots, storage,
                 loadingAdvice, advice, error, isAdding, searchQuery, isSearching,
                 searchRecommendation, form, searchReqs, adviceReqs>>

\* the search input: setSearchQuery(e.target.value)
setSearchQuery ==
  /\ ~showKeyInput /\ isAdding /\ searchStep
  /\ \E q \in AppQueries \cup {""} : q # searchQuery /\ searchQuery' = q
  /\ UNCHANGED <<now, recQuery, edits, aistudio, apiKey, showKeyInput, shots, storage,
                 loadingAdvice, advice, error, isAdding, searchStep, isSearching,
                 searchRecommendation, form, searchReqs, adviceReqs>>

\* <button type="submit" disabled={isSearching}>: the form is not submitted
\* while its only submit button is disabled
SearchSubmitDisabledNever == FALSE

SearchSubmitDisabled == isSearching

\* handleStartSearch up to its first await; the input is required
handleStartSearch ==
  /\ ~showKeyInput /\ isAdding /\ searchStep /\ ~SearchSubmitDisabled
  /\ searchQuery # ""
  /\ error' = ""
  /\ IF ~aistudio /\ apiKey = ""
       THEN /\ showKeyInput' = TRUE
            /\ isSearching' = FALSE
            /\ searchReqs' = searchReqs
       ELSE /\ showKeyInput' = showKeyInput
            /\ isSearching' = TRUE
            /\ searchReqs' = Append(searchReqs, [query |-> searchQuery, key |-> getApiKey,
                                                    abandoned |-> FALSE])
  /\ UNCHANGED <<now, recQuery, edits, aistudio, apiKey, shots, storage, loadingAdvice, advice,
                 isAdding, searchStep, searchQuery, searchRecommendation, form, adviceReqs>>

\* setError(rec.description || "Suche war nicht erfolgreich.")
SearchErrorOf(rec) ==
  IF Truthy(rec.fields, "description") THEN rec.fields["description"]
  ELSE "Suche war nicht erfolgreich."

\* finally { setIsSearching(false) } and finally { setLoadingAdvice(false) }
SearchFinallySkipped == isSearching

SearchFinally == FALSE

AdviceFinally == FALSE

\* handleStartSearch from the await of searchCoffeeParameters to its end
SearchSettles ==
  /\ searchReqs # <<>>
  /\ \E i \in DOMAIN searchReqs, env \in AppSearchEnvs :
       LET req == searchReqs[i]
           res == searchCoffeeParameters(req.key, req.query, env)
           rec == res.value
       IN  /\ searchReqs' = [j \in 1..(Len(searchReqs) - 1) |->
                               IF j < i THEN searchReqs[j] ELSE searchReqs[j + 1]]
           /\ IF res.kind = "resolved"
                THEN /\ error' = IF ~Truthy(rec.fields, "found") /\ Len(rec.sources) = 0
                                   THEN SearchErrorOf(rec) ELSE error
                     /\ searchRecommendation' = Some(rec)
                     /\ recQuery' = req.query
                ELSE /\ error' = "Verbindung fehlgeschlagen. Prüfe deinen API Key."
                     /\ searchRecommendation' = searchRecommendation
                     /\ recQuery' = recQuery
           /\ isSearching' = SearchFinally
  /\ UNCHANGED <<now, edits, aistudio, apiKey, showKeyInput, shots, storage,
                 loadingAdvice, advice, isAdding, searchStep, searchQuery, form, adviceReqs>>

\* searchRecommendation.x || prev.x for a numeric member
RecommendedNumberOrLiteral(rec, k, prev) ==
  IF Truthy(rec.fields, k) THEN NumberOf(rec.fields[k]) ELSE 18

RecommendedNumber(rec, k, prev) ==
  IF Truthy(rec.fields, k) THEN NumberOf(rec.fields[k]) ELSE prev

\* "Fortfahren", rendered with the recommendation
applyRecommendation ==
  /\ ~showKeyInput /\ isAdding /\ searchStep /\ searchRecommendation.present
  /\ LET rec == searchRecommendation.value
     IN  form' = [form EXCEPT
                    !.beanName = searchQuery,
                    !.dose = RecommendedNumber(rec, "dose", form.dose),
                    !.yield = RecommendedNumber(rec, "yield", form.yield),
                    !.time = RecommendedNumber(rec, "time", form.time),
                    !.maraXTempSetting =
                       IF Truthy(rec.fields, "maraXSetting")
                         THEN rec.fields["maraXSetting"] ELSE form.maraXTempSetting]
  /\ searchStep' = FALSE
  /\ UNCHANGED <<now, recQuery, edits, aistudio, apiKey, showKeyInput, shots, storage,
                 loadingAdvice, advice, error, isAdding, searchQuery, isSearching,
                 searchRecommendation, searchReqs, adviceReqs>>

\* setShots([newShot, ...shots])
WithNewShotAtTail(newShot, list) == list \o <<newShot>>

WithNewShotRestamped(newShot, list) ==
  <<newShot>> \o [i \in DOMAIN list |-> [list[i] EXCEPT !.timestamp = newShot.timestamp]]

WithNewShot(newShot, list) == <<newShot>> \o list

\* handleSubmit up to its await, with the render and the persist effect that
\* follow: getBaristaAdvice(newShot) is called by the handler itself, so the
\* request is issued (when a key is there) before React renders the new list
\* and runs the effect that writes it.  Both calls of Date.now() are taken to
\* fall into the same millisecond.
handleSubmitWithin(maxShots, maxPending) ==
  /\ ~showKeyInput /\ isAdding /\ ~searchStep
  /\ Len(shots) < maxShots /\ Len(adviceReqs) < maxPending
  /\ LET newShot == [beanName |-> form.beanName, dose |-> form.dose,
                       yield |-> form.yield, time |-> form.time,
                       maraXTempSetting |-> form.maraXTempSetting,
                       grindSetting |-> form.grindSetting, notes |-> form.notes,
                       flavorProfile |-> form.flavorProfile,
                       id |-> ToString(now), timestamp |-> now]
       IN  /\ adviceReqs' = Append(adviceReqs,
                                   [shot |-> newShot, key |-> getApiKey,
                                    issued |-> ~KeyMissing(getApiKey),
                                    storedAtIssue |-> Stored(newShot),
                                    abandoned |-> FALSE])
           /\ shots' = WithNewShot(newShot, shots)
           /\ storage' = PersistShots(shots')
  /\ isAdding' = FALSE
  /\ loadingAdvice' = TRUE
  /\ UNCHANGED <<now, recQuery, edits, aistudio, apiKey, showKeyInput, advice, error, searchStep,
                 searchQuery, isSearching, searchRecommendation, form, searchReqs>>

handleSubmit == handleSubmitWithin(MaxShots, MaxPending)

(***************************************************************************)
(* The inputs of the draft form.                                           *)
(***************************************************************************)
\* the texts left in an <input type="number">: e.target.value is "" when
\* the field is empty or holds no number
TypedNumbers == {"", "-5"}

\* Number(e.target.value)
NumberOfInput(text) ==
  CASE text = "" -> 0
    [] text = "-5" -> 0 - 5
    [] text = "17" -> 17
    [] OTHER -> 0

\* the positions of <input type="range" min="1" max="5">
RangeMin == 1
RangeMax == 5

\* the seconds the ShotTimer hands to onStop
StoppedSeconds == {31}

\* the draft form is rendered
FormShown == ~showKeyInput /\ isAdding /\ ~searchStep

\* a change of the draft form: the handlers below set one field
EditForm(newForm) ==
  /\ FormShown
  /\ edits < MaxEdits
  /\ newForm # form
  /\ form' = newForm
  /\ edits' = edits + 1
  /\ UNCHANGED <<now, recQuery, aistudio, apiKey, showKeyInput, shots, storage,
                 loadingAdvice, advice, error, isAdding, searchStep, searchQuery,
                 isSearching, searchRecommendation, searchReqs, adviceReqs>>

\* onChange={e => setForm({...form, dose: Number(e.target.value)})}
setDose == \E text \in TypedNumbers : EditForm([form EXCEPT !.dose = NumberOfInput(text)])

\* onChange={e => setForm({...form, yield: Number(e.target.value)})}
setYield == \E text \in TypedNumbers : EditForm([form EXCEPT !.yield = NumberOfInput(text)])

\* onChange={e => setForm({...form, time: Number(e.target.value)})}
setTime == \E text \in TypedNumbers : EditForm([form EXCEPT !.time = NumberOfInput(text)])

\* onClick={() => setForm({...form, maraXTempSetting: l})} for l of ['0', 'I', 'II']
setMaraXTempSetting ==
  \E l \in {"0", "I", "II"} : EditForm([form EXCEPT !.maraXTempSetting = l])

\* onChange={e => setForm({...form, grindSetting: e.target.value})}
setGrindSetting == \E text \in {"2.5"} : EditForm([form EXCEPT !.grindSetting = text])

\* updateFlavor(key, Number(e.target.value)) of a range input
updateFlavor ==
  \E key \in {"sourness", "overall"}, val \in {RangeMax} :
     EditForm([form EXCEPT !.flavorProfile[key] = val])

\* <ShotTimer onStop={(seconds) => setForm(prev => ({ ...prev, time: seconds }))} />
onStop == \E seconds \in StoppedSeconds : EditForm([form EXCEPT !.time = seconds])

\* handleSubmit from the await of getBaristaAdvice to its end
AdviceSettlesUndoesWrite ==
  /\ adviceReqs # <<>>
  /\ \E i \in DOMAIN adviceReqs, env \in AppAdviceEnvs :
       LET req == adviceReqs[i]
           res == getBaristaAdvice(req.key, req.shot, env)
       IN  /\ adviceReqs' = [j \in 1..(Len(adviceReqs) - 1) |->
                               IF j < i THEN adviceReqs[j] ELSE adviceReqs[j + 1]]
           /\ IF res.kind = "resolved"
                THEN /\ advice' = Some(res.value)
                     /\ error' = error
                ELSE /\ advice' = advice
                     /\ error' = "Analyse-Fehler. Prüfe deinen API Key."
           /\ shots' = SelectSeq(shots, LAMBDA x : x.id # req.shot.id)
           /\ storage' = PersistShots(shots')
           /\ loadingAdvice' = FALSE
  /\ UNCHANGED <<now, recQuery, edits, aistudio, apiKey, showKeyInput, isAdding,
                 searchStep, searchQuery, isSearching, searchRecommendation, form, searchReqs>>

AdviceSettles ==
  /\ adviceReqs # <<>>
  /\ \E i \in DOMAIN adviceReqs, env \in AppAdviceEnvs :
       LET req == adviceReqs[i]
           res == getBaristaAdvice(req.key, req.shot, env)
       IN  /\ adviceReqs' = [j \in 1..(Len(adviceReqs) - 1) |->
                               IF j < i THEN adviceReqs[j] ELSE adviceReqs[j + 1]]
           /\ IF res.kind = "resolved"
                THEN /\ advice' = Some(res.value)
                     /\ error' = error
                ELSE /\ advice' = advice
                     /\ error' = "Analyse-Fehler. Prüfe deinen API Key."
           /\ loadingAdvice' = AdviceFinally
  /\ UNCHANGED <<now, recQuery, edits, aistudio, apiKey, showKeyInput, shots, storage, isAdding,
                 searchStep, searchQuery, isSearching, searchRecommendation, form, searchReqs>>

\* onDelete={(id) => setShots(shots.filter(s => s.id !== id))} with the
\* persist effect of the render that follows
onDelete ==
  /\ ~showKeyInput /\ ~isAdding /\ shots # <<>>
  /\ \E i \in DOMAIN shots :
       /\ shots' = SelectSeq(shots, LAMBDA x : x.id # shots[i].id)
       /\ storage' = PersistShots(shots')
  /\ UNCHANGED <<now, recQuery, edits, aistudio, apiKey, showKeyInput, loadingAdvice, advice,
                 error, isAdding, searchStep, searchQuery, isSearching,
                 searchRecommendation, form, searchReqs, adviceReqs>>

\* the App variables before the component is mounted
AppRest ==
  /\ aistudio = FALSE
  /\ apiKey = ""
  /\ showKeyInput = FALSE
  /\ shots = <<>>
  /\ storage = [present |-> FALSE, text |-> <<>>]
  /\ loadingAdvice = FALSE
  /\ advice = NoValue
  /\ error = ""
  /\ isAdding = FALSE
  /\ searchStep = TRUE
  /\ searchQuery = ""
  /\ isSearching = FALSE
  /\ searchRecommendation = NoValue
  /\ form = InitialForm
  /\ searchReqs = <<>>
  /\ adviceReqs = <<>>
  /\ recQuery = ""
  /\ edits = 0

\* the startup variables once the App runs (and before it is considered)
StartRest ==
  /\ strictMode = FALSE
  /\ phase = "running"
  /\ queuedShots = <<>>
  /\ persisted = [present |-> FALSE, text |-> <<>>]

TimerRest ==
  /\ state = "IDLE"
  /\ time = 0
  /\ pumpTime = 0
  /\ timerRef = NoInterval
  /\ pumpTimerRef = NoInterval
  /\ onStopCount = 0
  /\ lastEmit = [value |-> 0, wallSeconds |-> 0, tickSeconds |-> 0]
  /\ lastEvent = "none"
  /\ firstDropAt = -1
  /\ lastTickAt = -1

ServiceRest ==
  /\ svcCall = NoCall
  /\ svcResult = NoResult
  /\ svcRequest = <<>>

\* the App after it is mounted with an empty journal and no stored key, and
\* its effects have run: checkKey shows the key screen unless window.aistudio
\* is present and hasSelectedApiKey() answers true (the host is taken to
\* answer true and to put no key into window.process); the persist effect has
\* written the list
AppInit ==
  /\ now = 0
  /\ TimerRest
  /\ ServiceRest
  /\ aistudio \in BOOLEAN
  /\ apiKey = ""
  /\ showKeyInput = (apiKey = "" /\ ~aistudio)
  /\ shots = <<>>
  /\ storage = PersistShots(shots)
  /\ loadingAdvice = FALSE
  /\ advice = NoValue
  /\ error = ""
  /\ isAdding = FALSE
  /\ searchStep = TRUE
  /\ searchQuery = ""
  /\ isSearching = FALSE
  /\ searchRecommendation = NoValue
  /\ form = InitialForm
  /\ searchReqs = <<>>
  /\ adviceReqs = <<>>
  /\ recQuery = ""
  /\ edits = 0
  /\ StartRest

AppNext ==
  /\ \/ AppClock
     \/ saveApiKey
     \/ startNewCoffee
     \/ repeatShot
     \/ cancelAdding
     \/ changeBean
     \/ setSearchQuery
     \/ handleStartSearch
     \/ SearchSettles
     \/ applyRecommendation
     \/ handleSubmit
     \/ AdviceSettles
     \/ onDelete
  /\ UNCHANGED <<timerVars, svcVars, startVars>>

AppSpec == AppInit /\ [][AppNext]_vars

\* The journal model: the App mounted with a key in localStorage and nothing
\* stored under barista_shots_v3, after its effects have run, with the
\* inputs of the draft form.  The two buttons that only switch the panel
\* shown (Abbrechen, Bohne ändern) are left to AppSpec.
JournalInit ==
  /\ now = 0
  /\ TimerRest
  /\ ServiceRest
  /\ StartRest
  /\ aistudio = FALSE
  /\ apiKey \in ApiKeys \ {""}
  /\ showKeyInput = (apiKey = "" /\ ~aistudio)
  /\ shots = <<>>
  /\ storage = PersistShots(shots)
  /\ loadingAdvice = FALSE
  /\ advice = NoValue
  /\ error = ""
  /\ isAdding = FALSE
  /\ searchStep = TRUE
  /\ searchQuery = ""
  /\ isSearching = FALSE
  /\ searchRecommendation = NoValue
  /\ form = InitialForm
  /\ searchReqs = <<>>
  /\ adviceReqs = <<>>
  /\ recQuery = ""
  /\ edits = 0

JournalNext ==
  /\ \/ AppClock
     \/ startNewCoffee
     \/ repeatShot
     \/ setSearchQuery
     \/ handleStartSearch
     \/ SearchSettles
     \/ applyRecommendation
     \/ setDose
     \/ setYield
     \/ setTime
     \/ setMaraXTempSetting
     \/ setGrindSetting
     \/ updateFlavor
     \/ onStop
     \/ handleSubmitWithin(MaxJournalShots, MaxJournalPending)
     \/ AdviceSettles
     \/ onDelete
  /\ UNCHANGED <<timerVars, svcVars, startVars>>

JournalSpec == JournalInit /\ [][JournalNext]_vars

(***************************************************************************)
(* Startup: the first render, the mount effects, the render of the state   *)
(* they queue.                                                             *)
(***************************************************************************)
\* a shot a former session submitted at instant t
ShotAt(t) ==
  [beanName |-> "Ethiopia Guji", dose |-> InitialForm.dose, yield |-> InitialForm.yield,
   time |-> InitialForm.time, maraXTempSetting |-> InitialForm.maraXTempSetting,
   grindSetting |-> InitialForm.grindSetting, notes |-> InitialForm.notes,
   flavorProfile |-> InitialForm.flavorProfile, id |-> ToString(t), timestamp |-> t]

\* the journals a former session left behind, newest first
StoredLists == { [i \in 1..n |-> ShotAt(n + 1 - i)] : n \in 0..MaxStored }

\* const saved = localStorage.getItem('barista_shots_v3');
\* if (saved) setShots(JSON.parse(saved))
\* a stored text is never the empty string: the empty list is stored as "[]"
LoadEffect(saved, queue) ==
  IF saved.present THEN Append(queue, JSONParseShots(saved.text)) ELSE queue

\* one run of the load effect and of the persist effect of the first
\* render, in which shots is the initial []
RunMountEffects(st) ==
  [storage |-> PersistShots(shots), queue |-> LoadEffect(st.storage, st.queue)]

\* <React.StrictMode>: a development build runs the effects of a mounted
\* component a second time before the queued state updates are rendered
StrictEffects(st) == IF strictMode THEN RunMountEffects(st) ELSE st

\* the commit of the first render: checkKey, the load effect, the persist effect
mountEffects ==
  /\ phase = "constructed"
  /\ LET done == StrictEffects(RunMountEffects([storage |-> storage, queue |-> <<>>]))
     IN  /\ storage' = done.storage
         /\ queuedShots' = done.queue
  /\ showKeyInput' = (apiKey = "" /\ ~aistudio)
  /\ phase' = "effects"
  /\ UNCHANGED <<now, recQuery, edits, aistudio, apiKey, shots, loadingAdvice, advice,
                 error, isAdding, searchStep, searchQuery, isSearching,
                 searchRecommendation, form, searchReqs, adviceReqs,
                 strictMode, persisted>>

\* the render of the queued setShots calls (the last one wins) and the
\* persist effect that follows when shots is a new array
renderQueued ==
  /\ phase = "effects"
  /\ shots' = IF queuedShots = <<>> THEN shots ELSE queuedShots[Len(queuedShots)]
  /\ storage' = IF queuedShots = <<>> THEN storage ELSE PersistShots(shots')
  /\ queuedShots' = <<>>
  /\ phase' = "running"
  /\ UNCHANGED <<now, recQuery, edits, aistudio, apiKey, showKeyInput, loadingAdvice,
                 advice, error, isAdding, searchStep, searchQuery, isSearching,
                 searchRecommendation, form, searchReqs, adviceReqs,
                 strictMode, persisted>>

\* the page is loaded again: the component state is constructed anew,
\* localStorage stays
reload ==
  /\ phase = "running"
  /\ showKeyInput' = FALSE
  /\ shots' = <<>>
  /\ loadingAdvice' = FALSE
  /\ advice' = NoValue
  /\ error' = ""
  /\ isAdding' = FALSE
  /\ searchStep' = TRUE
  /\ searchQuery' = ""
  /\ isSearching' = FALSE
  /\ searchRecommendation' = NoValue
  /\ form' = InitialForm
  /\ searchReqs' = <<>>
  /\ adviceReqs' = <<>>
  /\ recQuery' = ""
  /\ edits' = 0
  /\ phase' = "constructed"
  /\ queuedShots' = <<>>
  /\ persisted' = storage
  /\ UNCHANGED <<now, aistudio, apiKey, storage, strictMode>>

\* the App constructed (first render) over what a former session left in
\* localStorage, in a development or a production build
StartupInit ==
  /\ now = 0
  /\ TimerRest
  /\ ServiceRest
  /\ aistudio = FALSE
  /\ apiKey \in ApiKeys
  /\ showKeyInput = FALSE
  /\ shots = <<>>
  /\ storage \in {[present |-> FALSE, text |-> <<>>]} \cup {PersistShots(l) : l \in StoredLists}
  /\ loadingAdvice = FALSE
  /\ advice = NoValue
  /\ error = ""
  /\ isAdding = FALSE
  /\ searchStep = TRUE
  /\ searchQuery = ""
  /\ isSearching = FALSE
  /\ searchRecommendation = NoValue
  /\ form = InitialForm
  /\ searchReqs = <<>>
  /\ adviceReqs = <<>>
  /\ recQuery = ""
  /\ edits = 0
  /\ strictMode \in BOOLEAN
  /\ phase = "constructed"
  /\ queuedShots = <<>>
  /\ persisted = storage

StartupNext ==
  /\ \/ mountEffects
     \/ renderQueued
     \/ phase = "running" /\ saveApiKey /\ UNCHANGED startVars
     \/ phase = "running" /\ startNewCoffee /\ UNCHANGED startVars
     \/ phase = "running" /\ cancelAdding /\ UNCHANGED startVars
     \/ phase = "running" /\ onDelete /\ UNCHANGED startVars
     \/ reload
  /\ UNCHANGED <<timerVars, svcVars>>

StartupSpec == StartupInit /\ [][StartupNext]_vars

\* the service calls of the App settle: a request that is awaited is answered
\* or fails, and the suspended handler is resumed
AppLiveSpec ==
  /\ AppSpec
  /\ WF_vars(SearchSettles /\ UNCHANGED <<timerVars, svcVars, startVars>>)
  /\ WF_vars(AdviceSettles /\ UNCHANGED <<timerVars, svcVars, startVars>>)

TimerInit ==
  /\ now = 0
  /\ TimerRest
  /\ ServiceRest
  /\ AppRest
  /\ StartRest

TimerNext ==
  /\ \/ AdvanceClock
     \/ handleStartPump
     \/ handleFirstDrop
     \/ handleStop
     \/ handleReset
     \/ TickExtraction
     \/ TickPump
  /\ UNCHANGED <<svcVars, appVars, startVars>>

TimerSpec == TimerInit /\ [][TimerNext]_vars

ServiceInit ==
  /\ now = 0
  /\ TimerRest
  /\ ServiceRest
  /\ AppRest
  /\ StartRest

ServiceNext ==
  /\ \/ CallGetBaristaAdvice
     \/ CallSearchCoffeeParameters
     \/ ServiceIdle
  /\ UNCHANGED <<now, timerVars, appVars, startVars>>

ServiceSpec == ServiceInit /\ [][ServiceNext]_vars

(***************************************************************************)
(* Properties of the ShotTimer, checked under TimerSpec.                   *)
(***************************************************************************)

\* C1: stop happens only while the timer is EXTRACTING, every stop calls
\* onStop exactly once, and no other event (start, firstDrop, reset, tick,
\* the clock moving on) calls onStop.
C1_OnStopOncePerStop ==
  [][ /\ (lastEvent' = "stop" =>
            state = "EXTRACTING" /\ state' = "IDLE" /\ onStopCount' = onStopCount + 1)
      /\ (lastEvent' # "stop" => onStopCount' = onStopCount) ]_vars

\* C1 witness: a stop has called onStop once, and a second brew cycle has
\* gone through start, firstDrop and ticks without another call.
C1_Witness ==
  onStopCount = 1 /\ state = "EXTRACTING" /\ time >= 1 /\ pumpTime >= 1

\* C2 (as claimed): the value handed to onStop is the whole seconds of wall
\* clock between the most recent firstDrop and the stop.
C2_StopEmitsWallSeconds ==
  onStopCount > 0 => lastEmit.value = lastEmit.wallSeconds

\* C2 (amended): the value handed to onStop is the extraction counter as the
\* latest tick computed it, i.e. the whole seconds between firstDrop and the
\* latest tick (0 when no tick ran since firstDrop); it never exceeds the
\* whole seconds of wall clock between firstDrop and the stop.
C2_StopEmitsLastTickSeconds ==
  onStopCount > 0 =>
    /\ lastEmit.value = lastEmit.tickSeconds
    /\ lastEmit.value <= lastEmit.wallSeconds

\* C2 witness: a stop that fell after a whole-second boundary but before the
\* next tick, so that the emitted value is behind the wall clock.
C2_Witness ==
  onStopCount > 0 /\ lastEmit.value >= 1 /\ lastEmit.value < lastEmit.wallSeconds

\* C3 (as claimed): the stop transition leaves both counters at zero.
C3_StopZeroesCounters ==
  [][ lastEvent' = "stop" => (time' = 0 /\ pumpTime' = 0) ]_vars

\* C3 (amended): the stop transition leaves the timer IDLE with both counters
\* at the values they had when stop was pressed (the extraction counter being
\* the emitted value); the counters are zeroed by the next start.
C3_StopKeepsCountersUntilStart ==
  [][ /\ (lastEvent' = "stop" =>
            /\ state' = "IDLE"
            /\ time' = time /\ pumpTime' = pumpTime
            /\ time' = lastEmit'.value)
      /\ (lastEvent' = "start" => (time' = 0 /\ pumpTime' = 0)) ]_vars

\* C3 witness: IDLE after a stop, both counters still non-zero.
C3_Witness ==
  lastEvent = "stop" /\ state = "IDLE" /\ time >= 1 /\ pumpTime >= 1

\* C4: reset leaves the timer IDLE with both counters zero and does not call
\* onStop, from PUMPING as well as from EXTRACTING (the Reset button is not
\* rendered in IDLE).
C4_ResetClears ==
  [][ lastEvent' = "reset" =>
        /\ state' = "IDLE" /\ time' = 0 /\ pumpTime' = 0
        /\ onStopCount' = onStopCount /\ lastEmit' = lastEmit ]_vars

\* C4 witness: the state reached by a reset.
C4_Witness ==
  lastEvent = "reset" /\ state = "IDLE" /\ time = 0 /\ pumpTime = 0 /\ now >= MsPerSecond

\* C4 witness, second half: a reset is pressed with both counters non-zero.
C4_WitnessBefore ==
  state = "EXTRACTING" /\ time >= 1 /\ pumpTime >= 1

\* C5: EXTRACTING is entered only from PUMPING, by firstDrop; the extraction
\* counter is zero when EXTRACTING is entered (in later brew cycles too), and
\* the pump counter does not change at firstDrop nor while EXTRACTING.
C5_ExtractionStartsAtZero ==
  [][ /\ (state # "EXTRACTING" /\ state' = "EXTRACTING" =>
            /\ state = "PUMPING" /\ lastEvent' = "firstDrop"
            /\ time' = 0 /\ pumpTime' = pumpTime)
      /\ (state = "EXTRACTING" /\ state' = "EXTRACTING" => pumpTime' = pumpTime) ]_vars

\* C5 witness: EXTRACTING entered in a second brew cycle, after a stop that
\* left the extraction counter non-zero, with a non-zero frozen pump counter.
C5_Witness ==
  /\ onStopCount >= 1 /\ lastEmit.value >= 1
  /\ lastEvent = "firstDrop" /\ state = "EXTRACTING" /\ time = 0 /\ pumpTime >= 1

(***************************************************************************)
(* Properties of the service functions, checked under ServiceSpec.         *)
(***************************************************************************)

\* the response does not carry an object with the four advice fields
NonConformingAdvice(env) ==
  \/ ~env.hasText
  \/ ~JSONParse(env.text).ok
  \/ JSONParse(env.text).value.type # "object"
  \/ ~(AdviceKeys \subseteq DOMAIN JSONParse(env.text).value.fields)

\* C6 (as claimed): every call of getBaristaAdvice and of
\* searchCoffeeParameters resolves, with or without a credential.
C6_NeverRejects ==
  svcCall.op # "none" => svcResult.kind = "resolved"

\* C6 (amended): with a credential, every call of getBaristaAdvice and of
\* searchCoffeeParameters resolves with a value, whatever the service does
\* (success, transport error, malformed response); without a credential the
\* call rejects.
C6_ResolvesIffCredential ==
  svcCall.op # "none" =>
    /\ svcCall.apiKey # "" =>
         (svcResult.kind = "resolved" /\ svcResult.value.type \in {"object", "null"})
    /\ svcCall.apiKey = "" => svcResult.kind = "rejected"

\* C6 witness: getBaristaAdvice resolved although the response text could not
\* be deserialized.
C6_Witness ==
  /\ svcCall.op = "advice" /\ svcCall.apiKey # ""
  /\ ~svcCall.env.threw /\ svcCall.env.hasText /\ ~JSONParse(svcCall.env.text).ok
  /\ svcResult.kind = "resolved"

\* C7: with a credential, when the advisory call throws a transport error,
\* getBaristaAdvice resolves with exactly the four fixed fallback strings,
\* whatever the shot and the error.
C7_TransportErrorGivesFallback ==
  (svcCall.op = "advice" /\ svcCall.apiKey # "" /\ svcCall.env.threw) =>
    /\ svcResult.kind = "resolved"
    /\ svcResult.value.type = "object"
    /\ DOMAIN svcResult.value.fields = AdviceKeys
    /\ svcResult.value.fields["diagnosis"] = "Analyse momentan nicht möglich."
    /\ svcResult.value.fields["recommendation"] = "Mahlgrad nach Gefühl anpassen."
    /\ svcResult.value.fields["adjustment"] = "Leicht feiner/gröber probieren."
    /\ svcResult.value.fields["explanation"] = "Keine Verbindung zum Barista-Server."

\* C7 witness: the advisory call threw and the promise resolved.
C7_Witness ==
  /\ svcCall.op = "advice" /\ svcCall.apiKey # "" /\ svcCall.arg = BaseShot
  /\ svcCall.env.threw /\ svcCall.env.message = "503 Service Unavailable"
  /\ svcResult.kind = "resolved"

\* C8: when the advisory response does not conform to the four-field schema
\* (no text, text that does not deserialize, JSON that is not an object, an
\* object lacking a field), getBaristaAdvice returns the fallback advice; so
\* every advice it resolves with has all four fields.
C8_NonConformingGivesFallback ==
  (svcCall.op = "advice" /\ svcCall.apiKey # "" /\ ~svcCall.env.threw) =>
    /\ NonConformingAdvice(svcCall.env) =>
         svcResult.value = ObjectValue(FallbackAdvice, <<>>)
    /\ svcResult.kind = "resolved" =>
         (svcResult.value.type = "object" /\ AdviceKeys \subseteq DOMAIN svcResult.value.fields)

\* C9: without a credential both functions fail at once with the missing-key
\* error and do not call the AI service; a call that reaches the service and
\* meets a transport error or a malformed response settles differently.
C9_MissingKeyFailsFast ==
  svcCall.op # "none" =>
    /\ svcCall.apiKey = "" =>
         /\ svcResult.kind = "rejected"
         /\ svcResult.error = MissingKeyError
         /\ svcResult.networkCalls = 0
    /\ svcCall.apiKey # "" =>
         /\ svcResult.networkCalls = 1
         /\ svcResult # Rejected(MissingKeyError, 0)
         /\ svcResult.error # MissingKeyError

\* C9 witness: searchCoffeeParameters called without a credential while the
\* service would have failed; the call rejected without reaching the service.
C9_Witness ==
  /\ svcCall.op = "search" /\ svcCall.apiKey = "" /\ svcCall.env.threw
  /\ svcResult.kind = "rejected" /\ svcResult.networkCalls = 0

(***************************************************************************)
(* Properties of the App, checked under AppSpec.                           *)
(***************************************************************************)

\* C10 (as claimed): when the advisory request for a submitted shot is
\* issued, the stored list already contains the shot.
C10_StoredBeforeRequest ==
  \A i \in DOMAIN adviceReqs : adviceReqs[i].issued => adviceReqs[i].storedAtIssue

\* C10 (amended): the submission that issues the advisory request for a shot
\* also writes the shot to the stored list (at its head, the in-memory list
\* being the same), before the outcome of the request can be handled; the
\* request itself is issued before that write.
C10_StoredBySubmission ==
  [][ Len(adviceReqs') > Len(adviceReqs) =>
        LET req == adviceReqs'[Len(adviceReqs')]
        IN  /\ storage'.present
            /\ Len(storage'.text) = Len(shots) + 1
            /\ ParseShot(storage'.text[1]) = req.shot
            /\ shots'[1] = req.shot
            /\ loadingAdvice' ]_vars

\* C10 witness: a request was issued for a shot that the stored list did not
\* hold then and holds now, the outcome being still awaited.
C10_Witness ==
  /\ adviceReqs # <<>>
  /\ adviceReqs[1].issued /\ ~adviceReqs[1].storedAtIssue
  /\ Stored(adviceReqs[1].shot)
  /\ loadingAdvice

(***************************************************************************)
(* Properties of searchCoffeeParameters, checked under ServiceSpec.        *)
(***************************************************************************)
\* a call of searchCoffeeParameters that got past the key check
SearchReached == svcCall.op = "search" /\ svcCall.apiKey # ""

\* const text = response.text || ""
ResponseText(env) == IF env.hasText THEN env.text ELSE <<>>

\* the text holds a { and, later, a }
HasBraceSpan(text) ==
  \E i, j \in DOMAIN text : i < j /\ text[i] = LB /\ text[j] = RB

\* the part of the text from its first { through its last }
BraceSpan(text) ==
  LET first == CHOOSE i \in DOMAIN text :
                 text[i] = LB /\ \A j \in DOMAIN text : text[j] = LB => i <= j
      last == CHOOSE i \in DOMAIN text :
                text[i] = RB /\ \A j \in DOMAIN text : text[j] = RB => j <= i
  IN  SubSeq(text, first, last)

UnreadableDescription == "Konnte Antwort nicht lesen."
ProcessingErrorDescription == "Fehler beim Verarbeiten der Daten."

\* the result is { found: false, sources, description }
IsNotFound(result, sources, description) ==
  /\ result.kind = "resolved"
  /\ result.value.type = "object"
  /\ DOMAIN result.value.fields = {"found", "description"}
  /\ result.value.fields["found"] = "false"
  /\ result.value.fields["description"] = description
  /\ result.value.sources = sources

\* C12: when the network call of searchCoffeeParameters throws, the result is
\* found = false with no sources and a description that carries the message
\* of the error (another message gives another description); the results of
\* the two JSON-extraction failures carry descriptions no network error gives.
C12_NetworkErrorIsDistinguishable ==
  /\ (SearchReached /\ svcCall.env.threw) =>
       /\ IsNotFound(svcResult, <<>>, "API Fehler: " \o svcCall.env.message)
       /\ \A other \in ErrorMessages \ {svcCall.env.message} :
            svcResult.value.fields["description"] # "API Fehler: " \o other
       /\ svcResult.value.fields["description"]
            \notin {UnreadableDescription, ProcessingErrorDescription}
  /\ (/\ SearchReached /\ ~svcCall.env.threw
      /\ LET text == ResponseText(svcCall.env)
         IN  ~HasBraceSpan(text) \/ ~JSONParse(BraceSpan(text)).ok) =>
       /\ svcResult.kind = "resolved"
       /\ svcResult.value.fields["description"]
            \in {UnreadableDescription, ProcessingErrorDescription}
       /\ \A m \in ErrorMessages :
            svcResult.value.fields["description"] # "API Fehler: " \o m

\* C12 happens: the network call threw and the call resolved
C12_Witness ==
  /\ SearchReached /\ svcCall.env.threw
  /\ svcCall.env.message = "503 Service Unavailable"
  /\ svcResult.kind = "resolved"
  /\ svcResult.value.fields["description"] = "API Fehler: 503 Service Unavailable"

\* C13: a response text without a span from a { to a later } gives found =
\* false with the "unreadable" description, a text whose span from the first
\* { through the last } is not valid JSON gives found = false with the
\* "processing error" description; both results carry all the sources
\* collected from the metadata, and the two descriptions differ.
C13_ExtractionFailuresKeepSources ==
  (SearchReached /\ ~svcCall.env.threw) =>
    LET text == ResponseText(svcCall.env)
        sources == CollectSources(svcCall.env.hasChunks, svcCall.env.chunks)
    IN  /\ ~HasBraceSpan(text) => IsNotFound(svcResult, sources, UnreadableDescription)
        /\ (HasBraceSpan(text) /\ ~JSONParse(BraceSpan(text)).ok) =>
             IsNotFound(svcResult, sources, ProcessingErrorDescription)
        /\ UnreadableDescription # ProcessingErrorDescription

\* C13 happens: a span with a trailing comma, inside prose, and two sources
C13_Witness ==
  /\ SearchReached /\ ~svcCall.env.threw
  /\ svcCall.env.text # <<>> /\ Head(svcCall.env.text) = Txt
  /\ HasBraceSpan(svcCall.env.text)
  /\ ~JSONParse(BraceSpan(svcCall.env.text)).ok
  /\ Len(svcResult.value.sources) = 2
  /\ svcResult.value.fields["description"] = ProcessingErrorDescription

\* C13 happens as well for a text without any brace
C13_WitnessUnreadable ==
  /\ SearchReached /\ ~svcCall.env.threw
  /\ svcCall.env.text = <<Txt>>
  /\ Len(svcResult.value.sources) = 1
  /\ svcResult.value.fields["description"] = UnreadableDescription

\* C14: when the span from the first { through the last } parses as an
\* object, the result has exactly the members of that object other than
\* "sources", and the sources collected from the metadata; no member is
\* added; the text around the span does not change the result.
C14_ParsedFieldsPlusSources ==
  (/\ SearchReached /\ ~svcCall.env.threw
   /\ HasBraceSpan(ResponseText(svcCall.env))
   /\ JSONParse(BraceSpan(ResponseText(svcCall.env))).ok) =>
    LET span == BraceSpan(ResponseText(svcCall.env))
        parsed == JSONParse(span).value
        sources == CollectSources(svcCall.env.hasChunks, svcCall.env.chunks)
    IN  /\ svcResult.kind = "resolved"
        /\ svcResult.value.type = "object"
        /\ DOMAIN svcResult.value.fields = (DOMAIN parsed.fields) \ {"sources"}
        /\ \A k \in DOMAIN svcResult.value.fields :
             svcResult.value.fields[k] = parsed.fields[k]
        /\ svcResult.value.sources = sources
        /\ svcResult = searchCoffeeParameters(svcCall.apiKey, svcCall.arg,
                                              [svcCall.env EXCEPT !.text = span])

\* C14 happens: an object with a sources member and without dose, in a
\* code fence inside prose, and one collected source
C14_Witness ==
  /\ SearchReached /\ ~svcCall.env.threw
  /\ svcCall.env.text =
       <<Txt, Fence, LB, Pair("found", "true"), Comma, Pair("sources", "x"), Comma,
         Pair("found", "false"), RB, Fence, Txt>>
  /\ svcResult.kind = "resolved"
  /\ DOMAIN svcResult.value.fields = {"found"}
  /\ Len(svcResult.value.sources) = 1

\* the citations of the metadata that have a URI, in their order, each with
\* its title, or with the placeholder when the title is absent
CitationsWithUri(env, emptyTitleIsAbsent) ==
  LET chunks == IF env.hasChunks THEN env.chunks ELSE <<>>
      kept == SelectSeq(chunks, LAMBDA c : c.uri # "")
  IN  [i \in DOMAIN kept |->
         [title |-> IF kept[i].hasTitle /\ ~(emptyTitleIsAbsent /\ kept[i].title = "")
                      THEN kept[i].title ELSE "Quelle",
          uri |-> kept[i].uri]]

\* C15 as stated: on the paths without exception the sources are the
\* citations with a non-empty URI in their order, each with its own title,
\* the placeholder standing in only for an absent title.
C15_SourcesOwnTitleUnlessAbsent ==
  (SearchReached /\ ~svcCall.env.threw) =>
     svcResult.value.sources = CitationsWithUri(svcCall.env, FALSE)

\* C15: on the paths without exception the sources are the citations with a
\* non-empty URI in their order, each with its own title, the placeholder
\* standing in for a title that is absent or empty; citations without URI
\* are dropped.
C15_SourcesAreCitationsWithUri ==
  (SearchReached /\ ~svcCall.env.threw) =>
     /\ svcResult.kind = "resolved"
     /\ svcResult.value.sources = CitationsWithUri(svcCall.env, TRUE)
     /\ \A i \in DOMAIN svcResult.value.sources : svcResult.value.sources[i].uri # ""

\* C15 happens: one citation with a URI and one without give one source
C15_Witness ==
  /\ SearchReached /\ ~svcCall.env.threw
  /\ svcCall.env.chunks = <<[hasTitle |-> TRUE, title |-> "Roaster", uri |-> ""],
                            [hasTitle |-> FALSE, title |-> "", uri |-> "https://b.example"]>>
  /\ svcResult.value.sources = <<[title |-> "Quelle", uri |-> "https://b.example"]>>

(***************************************************************************)
(* Properties of the App component, checked under AppSpec.                 *)
(***************************************************************************)
\* a step in which a suspended handleSubmit takes the outcome of its request
AdviceOutcomeArrives == Len(adviceReqs') < Len(adviceReqs)

\* a step in which a suspended handleStartSearch takes the outcome of its request
SearchOutcomeArrives == Len(searchReqs') < Len(searchReqs)

\* a step of "Fortfahren": the search step of the draft ends
RecommendationApplied == isAdding /\ searchStep /\ isAdding' /\ ~searchStep'

\* C11: the outcome of an advisory request leaves the journal list and the
\* stored list as they are, whenever it arrives.
C11_AdviceOutcomeKeepsJournal ==
  [][AdviceOutcomeArrives => (shots' = shots /\ storage' = storage)]_vars

\* C11 happens: the fallback advice has arrived and the submitted shot is in
\* the journal and in the stored list
C11_Witness ==
  /\ adviceReqs = <<>> /\ ~loadingAdvice
  /\ advice = Some(ObjectValue(FallbackAdvice, <<>>))
  /\ shots # <<>>
  /\ Stored(shots[1])

\* the recommendation has a member k
Provides(rec, k) == k \in DOMAIN rec.fields

\* the recommendation has a member k whose value is not 0, empty, false or null
ProvidesTruthy(rec, k) ==
  k \in DOMAIN rec.fields /\ rec.fields[k] \notin {"0", "", "false", "null"}

\* the draft after "Fortfahren" has, in dose, yield, time and machine setting,
\* the recommendation's value where taken(rec, k) and the draft's own otherwise
DraftFilledWhere(taken(_, _)) ==
  LET rec == searchRecommendation.value
  IN  /\ form'.dose = IF taken(rec, "dose") THEN NumberOf(rec.fields["dose"]) ELSE form.dose
      /\ form'.yield = IF taken(rec, "yield") THEN NumberOf(rec.fields["yield"]) ELSE form.yield
      /\ form'.time = IF taken(rec, "time") THEN NumberOf(rec.fields["time"]) ELSE form.time
      /\ form'.maraXTempSetting =
           IF taken(rec, "maraXSetting") THEN rec.fields["maraXSetting"]
           ELSE form.maraXTempSetting

\* C16 as stated: applying a recommendation sets each of dose, yield, time
\* and machine setting to the recommendation's value whenever it provides
\* one, whatever the value, and keeps the draft's value otherwise.
C16_ProvidedValuesAlwaysTaken ==
  [][RecommendationApplied => DraftFilledWhere(Provides)]_vars

\* C16: applying a recommendation sets each of dose, yield, time and machine
\* setting to the recommendation's value when it provides one that is not 0
\* or empty, and keeps the draft's value otherwise; no literal is written.
C16_TruthyValuesTaken ==
  [][RecommendationApplied => DraftFilledWhere(ProvidesTruthy)]_vars

\* C16 happens: a recommendation with dose 0, yield 34, no time and setting
\* II was applied to the initial draft
C16_Witness ==
  /\ isAdding /\ ~searchStep /\ searchRecommendation.present
  /\ Provides(searchRecommendation.value, "dose")
  /\ ~Provides(searchRecommendation.value, "time")
  /\ form.dose = 18 /\ form.yield = 34 /\ form.time = 25
  /\ form.maraXTempSetting = "II"

\* C17: a draft opened after a search without match (found = false) has dose
\* 18, yield 36, time 25, machine setting "0" and all flavor ratings 3.
C17_NoMatchDraftHasDefaults ==
  [][(RecommendationApplied /\ ~ProvidesTruthy(searchRecommendation.value, "found")) =>
       form' = [InitialForm EXCEPT !.beanName = form'.beanName]]_vars

\* C18: a search request is started only when none is outstanding and
\* isSearching is cleared; so at most one is outstanding at any time.
C18_OneSearchOutstanding ==
  [][Len(searchReqs') > Len(searchReqs) => (searchReqs = <<>> /\ ~isSearching)]_vars

\* C18 happens: the search screen was left and reopened and a query typed
\* while the request of the screen left is still outstanding
C18_Witness ==
  /\ Len(searchReqs) = 1 /\ searchReqs[1].abandoned
  /\ isSearching /\ ~showKeyInput /\ isAdding /\ searchStep /\ searchQuery # ""

\* C19: at most one advisory request is outstanding at any time.
C19_OneAdviceOutstanding ==
  Cardinality({i \in DOMAIN adviceReqs : adviceReqs[i].issued}) <= 1

\* C20: the outcome of a request whose screen was left meanwhile sets neither
\* the recommendation nor the advice nor the error notice.
C20_LateOutcomeIgnored ==
  [][/\ (SearchOutcomeArrives /\ \A i \in DOMAIN searchReqs : searchReqs[i].abandoned) =>
          (searchRecommendation' = searchRecommendation /\ error' = error)
     /\ (AdviceOutcomeArrives /\ \A i \in DOMAIN adviceReqs : adviceReqs[i].abandoned) =>
          (advice' = advice /\ error' = error)]_vars

(***************************************************************************)
(* The counters of the ShotTimer, checked under TimerSpec.                 *)
(***************************************************************************)
\* C28: after every tick the counter of the running phase is the number of
\* whole seconds from the start of the phase to the tick, however late the
\* tick fires; within a phase the counter never decreases.
C28_CounterIsWholeSecondsOfPhase ==
  [][/\ (lastEvent' = "tick" /\ state' = "EXTRACTING") =>
          time' = (now' - firstDropAt') \div 1000
     /\ (lastEvent' = "tick" /\ state' = "PUMPING") =>
          pumpTime' = (now' - pumpTimerRef'.startTime) \div 1000
     /\ (state = "EXTRACTING" /\ state' = "EXTRACTING") => time' >= time
     /\ (state = "PUMPING" /\ state' = "PUMPING") => pumpTime' >= pumpTime]_vars

\* C28 happens: a tick fired 1050 ms after the first drop, off the 100 ms grid
C28_Witness ==
  /\ state = "EXTRACTING" /\ lastEvent = "tick"
  /\ now - firstDropAt = 1050
  /\ time = 1

(***************************************************************************)
(* The advisory request, checked under ServiceSpec.                        *)
(***************************************************************************)
\* the fields of a shot the advisory request is said to carry
CarriedFields(shot) ==
  <<shot.beanName, shot.dose, shot.yield, shot.time, shot.maraXTempSetting,
    shot.grindSetting, shot.flavorProfile>>

\* C26: the advisory request is a function of the shot, and shots that
\* differ in bean name, dose, yield, time, machine setting, grind setting or
\* one of the five flavor ratings give different requests.
C26_RequestCarriesAllFields ==
  (svcCall.op = "advice" /\ svcCall.apiKey # "") =>
     /\ svcRequest = AdvicePrompt(svcCall.arg)
     /\ \A other \in ServiceShots :
          CarriedFields(other) # CarriedFields(svcCall.arg) =>
            AdvicePrompt(other) # svcRequest

(***************************************************************************)
(* The recommendation and the query, checked under AppSpec; the in-flight  *)
(* flags, checked under AppLiveSpec.                                       *)
(***************************************************************************)
\* C30: whenever a recommendation is applied to the draft, the bean name
\* written is the query the recommendation was requested with.
C30_AppliedNameIsRequestedQuery ==
  [][RecommendationApplied => form'.beanName = recQuery]_vars

ShotsRemoved == Len(shots') < Len(shots)

\* list is what is left of whole when the shots at some positions are removed
RECURSIVE Remains(_, _)
Remains(list, whole) ==
  IF list = <<>> THEN TRUE
  ELSE IF whole = <<>> THEN FALSE
  ELSE IF Head(list) = Head(whole) THEN Remains(Tail(list), Tail(whole))
  ELSE Remains(list, Tail(whole))

C24_IdsDistinctDeleteRemovesOne ==
  /\ [](\A i, j \in DOMAIN shots : i # j => shots[i].id # shots[j].id)
  /\ [][ShotsRemoved => Len(shots') = Len(shots) - 1]_vars

C27_SubmittedShotsAreValid ==
  \A i \in DOMAIN shots :
     /\ shots[i].dose > 0
     /\ shots[i].yield > 0
     /\ shots[i].time \in Nat
     /\ \A k \in FlavorKeys : shots[i].flavorProfile[k] \in 1..5

(***************************************************************************)
(* Storage at startup, checked under StartupSpec.                          *)
(***************************************************************************)
\* C22: storage changes only in a step that changes the journal of the
\* running App, and then to the list the journal holds; starting the App
\* changes nothing in storage.
C22_StorageFollowsMutations ==
  [][/\ storage' # storage => (phase = "running" /\ phase' = "running" /\ shots' # shots)
     /\ (phase = "running" /\ phase' = "running" /\ shots' # shots) =>
          storage' = PersistShots(shots')]_vars

\* C23: when the App has started over a stored list, the journal is that list.
C23_RoundTrip ==
  [][(phase = "effects" /\ phase' = "running" /\ persisted.present) =>
        shots' = JSONParseShots(persisted.text)]_vars

=============================================================================
